---- MODULE Spec2Model ----
(***************************************************************************)
(* Model of bounced_emails.py: the ingestion run fetch_bounced_emails (an  *)
(* asyncio coroutine that suspends at every remote call), its two callers  *)
(* (the daily scheduler job and the /refresh endpoint), the SQLite store   *)
(* (tables bounced_emails and fetch_log) and the read endpoints            *)
(* /bounced-emails and /logs.                                              *)
(*                                                                         *)
(* One step of a run is the code between two suspension points: from the   *)
(* arrival of a response to the next `await client.get` or to the return.  *)
(* Everything between two awaits is synchronous on the event loop, so it   *)
(* is one atomic action; the store phase (lines 164-184) has no await and  *)
(* belongs to the step of the response that ends the last campaign.        *)
(***************************************************************************)
EXTENDS Integers, Sequences, FiniteSets, TLC

\* ------------------------------------------------------------------ bounds
\* Page size. The source sets limit = 100 (line 93); the model scales it so
\* that full pages can be enumerated. Only "len(emails) < limit" reads it.
limit == 2
\* The provider's data is finite: it serves at most this many full pages per
\* campaign before a short or empty one.
MaxFullPages == 1
\* Largest number of campaigns the enumerator returns.
MaxCampaigns == 2
\* Ingestion runs started since the database was created.
MaxRuns == 3
\* The clock (CURRENT_TIMESTAMP and datetime.now) runs over 0..MaxClock.
MaxClock == 1
\* Concurrent /refresh requests (the scheduler job is one more task).
MaxManual == 1

\* Offsets and the counters of a run's history are told apart up to these
\* values, which no run against a provider with at most MaxFullPages full
\* pages per campaign reaches; beyond them they stay where they are.
MaxOffset == (MaxFullPages + 1) * limit
MaxCount == 1 + MaxCampaigns * (MaxFullPages + 1)

\* ------------------------------------------------------- program constants
\* timedelta(days=7), line 66, in clock units.
WindowDays == 7

PLACEHOLDER == "YOUR_API_KEY_HERE"
NoValue == "<unset>"

\* ---------------------------------------------------------------- helpers
Range(s) == {s[i] : i \in DOMAIN s}

RECURSIVE SeqsUpTo(_, _)
\* All sequences over S of length 0..n.
SeqsUpTo(S, n) ==
  IF n = 0 THEN {<<>>}
  ELSE LET shorter == SeqsUpTo(S, n - 1)
       IN shorter \cup {Append(s, x) : s \in {q \in shorter : Len(q) = n - 1}, x \in S}

\* ------------------------------------------------- sent_time and the filter
\* The JSON value under an entry's 'sent_time' key.  k is its JSON type
\* ("null" also stands for an absent key: email.get returns None); a string
\* has a form: "" (empty), text that is no ISO timestamp (garbage), an ISO
\* timestamp ending in the UTC designator Z, one ending in +00:00, or one
\* with no zone at all (naive).  t is the instant the text denotes.
SentTime(k, form, t) == [k |-> k, form |-> form, t |-> t]
JsonNull == SentTime("null", "-", 0)
JsonNumber == SentTime("number", "-", 0)
EmptyStr == SentTime("str", "empty", 0)
Garbage == SentTime("str", "garbage", 0)
IsoZ(t) == SentTime("str", "Z", t)
IsoOffset(t) == SentTime("str", "offset", t)
IsoNaive(t) == SentTime("str", "naive", t)

\* Python truthiness of the value: `if not sent_time_str` (line 125).
Truthy(v) == ~(v.k = "null" \/ (v.k = "str" /\ v.form = "empty"))

\* sent_time_str.replace('Z', '+00:00') (line 130): a str method; any other
\* type has no such attribute.
str_replace_Z(v) ==
  IF v.k # "str" THEN [exc |-> "AttributeError"]
  ELSE [exc |-> "none",
        val |-> IF v.form = "Z" THEN [v EXCEPT !.form = "offset"] ELSE v]

\* datetime.fromisoformat (line 130): an aware datetime for text with an
\* offset, a naive one for text without, ValueError for anything else (the
\* bare Z designator included, which is why the code replaces it first).
fromisoformat(s) ==
  CASE s.form = "offset" -> [exc |-> "none", aware |-> TRUE, t |-> s.t]
    [] s.form = "naive" -> [exc |-> "none", aware |-> FALSE, t |-> s.t]
    [] OTHER -> [exc |-> "ValueError"]

\* sent_time >= seven_days_ago (line 133); seven_days_ago is aware (line 66),
\* and Python refuses to order a naive datetime against an aware one.
datetime_ge(d, cutoff) ==
  IF d.aware THEN [exc |-> "none", val |-> d.t >= cutoff]
  ELSE [exc |-> "TypeError"]

\* The record appended for an entry (lines 134-145).
BounceRecord(email, campaign) ==
  [campaign_id |-> campaign.id, campaign_name |-> campaign.name,
   email_status |-> "bounced", sent_time |-> email.sent_time]

\* Lines 123-148 for one entry: "skip" (continue), "append", or "raise" when
\* an exception leaves the inner try (only ValueError and AttributeError are
\* caught at line 146).
entry_outcome(email, cutoff) ==
  LET v == email.sent_time IN
  IF ~Truthy(v) THEN "skip"
  ELSE LET r == str_replace_Z(v) IN
       IF r.exc # "none" THEN "skip"
       ELSE LET d == fromisoformat(r.val) IN
            IF d.exc # "none" THEN "skip"
            ELSE LET c == datetime_ge(d, cutoff) IN
                 IF c.exc # "none" THEN "raise"
                 ELSE IF c.val THEN "append" ELSE "skip"

RECURSIVE filter_from(_, _, _, _, _)
\* The for loop at lines 122-148 from entry i on, with acc the records
\* appended so far: the loop ends at the end of the page or at the first
\* entry that raises.
filter_from(emails, i, campaign, cutoff, acc) ==
  IF i > Len(emails) THEN [recs |-> acc, raised |-> FALSE]
  ELSE LET o == entry_outcome(emails[i], cutoff) IN
       IF o = "raise" THEN [recs |-> acc, raised |-> TRUE]
       ELSE filter_from(emails, i + 1, campaign, cutoff,
                        IF o = "append"
                        THEN Append(acc, BounceRecord(emails[i], campaign))
                        ELSE acc)

\* Mutant: the records of a page are put in front of one another
\* (insert(0, ...) for append), so a page's records come out newest first.
filter_page_reversed(emails, campaign, cutoff) ==
  LET f == filter_from(emails, 1, campaign, cutoff, <<>>)
  IN [f EXCEPT !.recs = [i \in 1..Len(f.recs) |-> f.recs[Len(f.recs) + 1 - i]]]

filter_page(emails, campaign, cutoff) ==
  filter_from(emails, 1, campaign, cutoff, <<>>)

\* ------------------------------------------------------------------ state
CronTask == <<"cron", 0>>

Tasks == {CronTask} \cup {<<"refresh", i>> : i \in 1..MaxManual}

VARIABLES
  env_api_key,     \* the process environment's SMARTLEAD_API_KEY, or NoValue
  now,             \* the wall clock
  run,             \* per task: the coroutine's position and local variables
  obs,             \* per task: history of the current run (requests issued, page outcomes)
  returned,        \* the last return of fetch_bounced_emails: task, result, the run's history
  bounced_emails,  \* table bounced_emails: rows (id, data, created_at), as committed
  fetch_log,       \* table fetch_log: rows (id, status, message, fetched_at), as committed
  bounced_seq,     \* sqlite_sequence of bounced_emails (AUTOINCREMENT never reuses an id)
  runs,            \* ingestion runs started so far
  last_success,    \* history: the aggregate stored by the latest run that returned success
  response,        \* the last response of GET /bounced-emails
  logs,            \* the last response of GET /logs
  provider         \* what the provider holds, where a specification fixes it

vars == <<env_api_key, now, run, obs, returned, bounced_emails, fetch_log,
          bounced_seq, runs, last_success, response, logs, provider>>

\* The committed content of bounced_emails.db.
DB == [bounced_emails |-> bounced_emails, fetch_log |-> fetch_log,
       bounced_seq |-> bounced_seq]

\* A task that is not inside fetch_bounced_emails.
IdleRun == [pc |-> "idle", seven_days_ago |-> 0, campaigns |-> <<>>, ci |-> 0,
            offset |-> 0, emails |-> <<>>, all_bounced_emails |-> <<>>]

\* The text of a fetch_log message or of an error result: for a success
\* the two totals it cites (line 180), for an error str(e) (line 202).
Message(text, n_emails, n_campaigns) ==
  [text |-> text, emails |-> n_emails, campaigns |-> n_campaigns]

NoPage == [outcome |-> "none", page |-> <<>>, stopped |-> FALSE,
           fetches |-> 0, fulls |-> 0]

NoObs == [started_at |-> 0, calls |-> 0, responses |-> 0, fetches |-> 0,
          fulls |-> 0, expected |-> <<>>, fetch_failed |-> FALSE, last |-> NoPage]

NoTask == <<"-", 0>>

\* status "none": nothing has returned since the process started; "raised":
\* an exception left fetch_bounced_emails and the caller has no result.
NoResult == [task |-> NoTask, status |-> "none", total_campaigns |-> 0,
             total_bounced_emails |-> 0, message |-> Message("-", 0, 0),
             aggregate |-> <<>>, obs |-> NoObs]

NoResponse == [status |-> "none", data |-> <<>>, fetched_at |-> 0,
               total_bounced |-> 0]

\* No GET /logs has been answered since the process started.
NoLogs == [asked |-> FALSE, limit |-> 0, ids |-> <<>>, logs |-> <<>>]

\* The provider is not fixed: it may answer each request with anything.
NoProvider == [campaigns |-> <<>>, bounces |-> <<>>]

\* ------------------------------------------------------------- the store
\* json.dumps of the record list (line 174) and json.loads of the stored
\* text (line 272): the TEXT column holds the encoding, not the list.
json_dumps(list) == [json |-> "array", items |-> list]
json_loads(text) == text.items

\* Mutant: the old rows are kept (the DELETE is missing or deletes nothing).
sql_delete_none(w) == w

\* cursor.execute('DELETE FROM bounced_emails') (line 169).
sql_delete_bounced(w) == [w EXCEPT !.bounced_emails = <<>>]

\* Mutant: nothing is inserted for an empty aggregate.
sql_insert_bounced_if_any(w, data, clock) ==
  IF data.items = <<>> THEN w
  ELSE [w EXCEPT !.bounced_emails =
                   Append(@, [id |-> w.bounced_seq + 1, data |-> data,
                              created_at |-> clock]),
                 !.bounced_seq = @ + 1]

\* INSERT INTO bounced_emails (data) VALUES (?) (lines 172-175): id from the
\* AUTOINCREMENT sequence, created_at DEFAULT CURRENT_TIMESTAMP (lines 26-30).
sql_insert_bounced(w, data, clock) ==
  [w EXCEPT !.bounced_emails =
              Append(@, [id |-> w.bounced_seq + 1, data |-> data,
                         created_at |-> clock]),
            !.bounced_seq = @ + 1]

\* Mutant: the outcome is written over the log (INSERT OR REPLACE on a
\* fixed id), so the log keeps one row.
sql_replace_log(w, status, message, clock) ==
  [w EXCEPT !.fetch_log =
              <<[id |-> 1, status |-> status, message |-> message,
                 fetched_at |-> clock]>>]

\* INSERT INTO fetch_log (status, message) VALUES (?, ?) (lines 178-181 and
\* 200-203): fetched_at DEFAULT CURRENT_TIMESTAMP (lines 33-38).
sql_insert_log(w, status, message, clock) ==
  [w EXCEPT !.fetch_log =
              Append(@, [id |-> Len(w.fetch_log) + 1, status |-> status,
                         message |-> message, fetched_at |-> clock])]

\* Mutant: the connection is in autocommit mode (isolation_level=None), so
\* every statement that ran stays.
on_abort_autocommit(committed, working) == working

\* What the database holds when a connection goes away without commit():
\* sqlite3 opens a transaction before the first DELETE/INSERT (the default
\* isolation_level), so the uncommitted work is rolled back.
on_abort(committed, working) == committed

\* A store fault: statement number `at` raises sqlite3.Error (at = 0: none),
\* or, with kill, the process is torn down just before that statement.
NoFault == [at |-> 0, kill |-> FALSE]
StoreFaults == {NoFault} \cup [at : 1..4, kill : BOOLEAN]
HandlerFaults == {NoFault} \cup [at : 1..2, kill : BOOLEAN]

\* Mutant: conn.commit() right after the DELETE, the two INSERTs in a
\* second transaction.
store_snapshot_commit_early(db, records, n_campaigns, clock, fault) ==
  LET w1 == sql_delete_bounced(db)
      w2 == sql_insert_bounced(w1, json_dumps(records), clock)
      w3 == sql_insert_log(w2, "success",
                           Message("Successfully fetched", Len(records), n_campaigns),
                           clock)
  IN CASE fault.at = 0 -> w3
       [] fault.at = 1 -> on_abort(db, db)
       [] fault.at = 2 -> on_abort(w1, w1)
       [] fault.at = 3 -> on_abort(w1, w2)
       [] fault.at = 4 -> on_abort(w1, w3)

\* Mutant: conn.commit() after the INSERT of the snapshot, the INSERT of the
\* success outcome in a transaction of its own.
store_snapshot_log_apart(db, records, n_campaigns, clock, fault) ==
  LET w1 == sql_delete_bounced(db)
      w2 == sql_insert_bounced(w1, json_dumps(records), clock)
      w3 == sql_insert_log(w2, "success",
                           Message("Successfully fetched", Len(records), n_campaigns),
                           clock)
  IN CASE fault.at = 0 -> w3
       [] fault.at = 1 -> on_abort(db, db)
       [] fault.at = 2 -> on_abort(db, w1)
       [] fault.at = 3 -> on_abort(w2, w2)
       [] fault.at = 4 -> on_abort(w2, w3)

\* Mutant: the new records are added to the stored ones (the row is read,
\* extended and written back) instead of replacing them.
store_snapshot_merging(db, records, n_campaigns, clock, fault) ==
  LET old == IF db.bounced_emails = <<>> THEN <<>>
             ELSE json_loads(db.bounced_emails[Len(db.bounced_emails)].data)
      w1 == sql_delete_bounced(db)
      w2 == sql_insert_bounced(w1, json_dumps(old \o records), clock)
      w3 == sql_insert_log(w2, "success",
                           Message("Successfully fetched", Len(records), n_campaigns),
                           clock)
  IN CASE fault.at = 0 -> w3
       [] fault.at = 1 -> on_abort(db, db)
       [] fault.at = 2 -> on_abort(db, w1)
       [] fault.at = 3 -> on_abort(db, w2)
       [] fault.at = 4 -> on_abort(db, w3)

\* Lines 164-184: DELETE, INSERT snapshot, INSERT log, commit, as one
\* transaction; fault.at names the statement that does not complete.
store_snapshot(db, records, n_campaigns, clock, fault) ==
  LET w1 == sql_delete_bounced(db)
      w2 == sql_insert_bounced(w1, json_dumps(records), clock)
      w3 == sql_insert_log(w2, "success",
                           Message("Successfully fetched", Len(records), n_campaigns),
                           clock)
  IN CASE fault.at = 0 -> w3
       [] fault.at = 1 -> on_abort(db, db)
       [] fault.at = 2 -> on_abort(db, w1)
       [] fault.at = 3 -> on_abort(db, w2)
       [] fault.at = 4 -> on_abort(db, w3)

\* Lines 198-205: the error handler's INSERT into fetch_log and commit.
log_error(db, message, clock, fault) ==
  LET w1 == sql_insert_log(db, "error", Message(message, 0, 0), clock)
  IN CASE fault.at = 0 -> w1
       [] fault.at = 1 -> on_abort(db, db)
       [] fault.at = 2 -> on_abort(db, w1)

\* SELECT data, created_at FROM bounced_emails ORDER BY created_at DESC
\* LIMIT 1 (line 267): the rows fetchone() may return, none if the table is
\* empty; rows with equal created_at are in no defined order.
select_latest(rows) ==
  {r \in Range(rows) : \A q \in Range(rows) : q.created_at <= r.created_at}

\* Lines 271-283: the response built from the row, or the no-data result.
snapshot_response(row) ==
  [status |-> "success", data |-> json_loads(row.data),
   fetched_at |-> row.created_at, total_bounced |-> Len(json_loads(row.data))]

no_data_response == [NoResponse EXCEPT !.status = "no_data"]

\* Every response GET /bounced-emails can give on the committed rows.
read_responses(rows) ==
  IF select_latest(rows) = {} THEN {no_data_response}
  ELSE {snapshot_response(r) : r \in select_latest(rows)}

\* SELECT status, message, fetched_at FROM fetch_log ORDER BY fetched_at
\* DESC LIMIT ? (lines 307-310): the row sequences fetchall() may return,
\* as row numbers.  Rows with equal fetched_at are in no defined order, and
\* a negative LIMIT is no limit in SQLite.
select_logs(rows, lim) ==
  LET n == Len(rows)
      orders == {o \in [1..n -> 1..n] :
                   /\ \A i, j \in 1..n : i # j => o[i] # o[j]
                   /\ \A i, j \in 1..n :
                        i < j => rows[o[i]].fetched_at >= rows[o[j]].fetched_at}
      k == IF lim < 0 \/ lim > n THEN n ELSE lim
  IN {SubSeq(o, 1, k) : o \in orders}

\* Lines 314-323: the response built from the rows; ids tells which rows
\* they were (history: the response carries no id).
logs_response(rows, ids, lim) ==
  [asked |-> TRUE, limit |-> lim, ids |-> ids,
   logs |-> [i \in 1..Len(ids) |->
               [status |-> rows[ids[i]].status, message |-> rows[ids[i]].message,
                timestamp |-> rows[ids[i]].fetched_at]]]

\* --------------------------------------------------------- the environment
\* Values of SMARTLEAD_API_KEY in the process environment.
Envs == {NoValue, PLACEHOLDER, "sk_live"}

\* os.getenv('SMARTLEAD_API_KEY', 'YOUR_API_KEY_HERE') (line 58).
getenv(value) == IF value = NoValue THEN PLACEHOLDER ELSE value

Campaign(i) == [id |-> i, name |-> <<"campaign", i>>]

\* Campaign lists the enumerator can return: up to MaxCampaigns campaigns
\* with different ids, in any order.
CampaignLists ==
  {s \in SeqsUpTo({Campaign(i) : i \in 1..MaxCampaigns}, MaxCampaigns) :
     \A i, j \in DOMAIN s : i # j => s[i] # s[j]}

\* Responses to GET /campaigns: a non-success status or transport failure,
\* a JSON body that is no list of campaign objects (response.json() gives
\* None, a number, ...: len() or .get raises inside the outer try), or a list.
CampaignsResponses(lists) ==
  {[http |-> "error", shape |-> "-", items |-> <<>>],
   [http |-> "ok", shape |-> "other", items |-> <<>>]}
  \cup {[http |-> "ok", shape |-> "list", items |-> l] : l \in lists}

\* A bounce entry: a JSON object; only its sent_time bears on the run.
Entry(v) == [sent_time |-> v]

\* The sent_time values the provider may send to a run whose cutoff is c.
WideSentTimes(c) ==
  {JsonNull, EmptyStr, JsonNumber, Garbage,
   IsoZ(c - 1), IsoZ(c), IsoOffset(c), IsoNaive(c)}

NarrowSentTimes(c) == {IsoZ(c)}

\* Responses to GET /campaigns/{id}/statistics at `offset`: a failure, a
\* body that is neither a list nor an object with 'data', a bare list, or
\* the list under 'data'.  The provider's data is finite: from offset
\* full_pages * limit on, a page is short or empty.
PageResponses(sent_times, offset, full_pages) ==
  LET n == IF offset < full_pages * limit THEN limit ELSE limit - 1
      pages == SeqsUpTo({Entry(v) : v \in sent_times}, n)
  IN {[http |-> "error", shape |-> "-", items |-> <<>>],
      [http |-> "ok", shape |-> "other", items |-> <<>>]}
     \cup {[http |-> "ok", shape |-> sh, items |-> p] :
             sh \in {"list", "data"}, p \in pages}

\* ------------------------------------------------------- leaving the run
SetDB(db) ==
  /\ bounced_emails' = db.bounced_emails
  /\ fetch_log' = db.fetch_log
  /\ bounced_seq' = db.bounced_seq

\* The process is torn down: every coroutine is gone with its locals.
ProcessDies ==
  /\ run' = [t \in Tasks |-> IdleRun]
  /\ obs' = [t \in Tasks |-> NoObs]
  /\ returned' = NoResult

\* Line 207: the error result, with the history o of the run that gave it.
ErrorResult(t, message, records, o) ==
  [NoResult EXCEPT !.task = t, !.status = "error",
                   !.message = Message(message, 0, 0),
                   !.aggregate = records, !.obs = o]

\* The exception left fetch_bounced_emails: the caller has no result object.
Raised(t, message, records, o) ==
  [NoResult EXCEPT !.task = t, !.status = "raised",
                   !.message = Message(message, 0, 0),
                   !.aggregate = records, !.obs = o]

\* Mutant: total_campaigns counts the campaigns that have a record in the
\* aggregate instead of len(campaigns).
SuccessResult_with_records(t, records, n_campaigns, o) ==
  [task |-> t, status |-> "success",
   total_campaigns |-> Cardinality({records[i].campaign_id : i \in DOMAIN records}),
   total_bounced_emails |-> Len(records),
   message |-> Message("-", 0, 0), aggregate |-> records, obs |-> o]

\* Lines 187-192: the success result.  aggregate is all_bounced_emails as
\* the run held it when it left (history: the results carry only totals).
SuccessResult(t, records, n_campaigns, o) ==
  [task |-> t, status |-> "success", total_campaigns |-> n_campaigns,
   total_bounced_emails |-> Len(records),
   message |-> Message("-", 0, 0), aggregate |-> records, obs |-> o]

\* What of a run's history outlives the run.
Final(o) == [o EXCEPT !.started_at = 0, !.expected = <<>>]

\* Lines 194-207: the outer except clause.  It writes the error outcome
\* from db (whatever the try block left committed) and returns the error
\* result; its own statements are inside no try.
handle_exception(t, db, message, records, o) ==
  \E hf \in HandlerFaults :
    /\ SetDB(log_error(db, message, now, hf))
    /\ UNCHANGED last_success
    /\ IF hf.kill THEN ProcessDies
       ELSE /\ run' = [run EXCEPT ![t] = IdleRun]
            /\ obs' = [obs EXCEPT ![t] = NoObs]
            /\ returned' = IF hf.at = 0
                           THEN ErrorResult(t, message, records, Final(o))
                           ELSE Raised(t, "sqlite3.Error", records, Final(o))

\* Lines 162-192: store the aggregate and return the success result; a
\* statement that raises sends the run to the except clause.
store_and_return(t, records, n_campaigns, o) ==
  \E sf \in StoreFaults :
  LET db2 == store_snapshot(DB, records, n_campaigns, now, sf) IN
  IF sf.at = 0
  THEN /\ SetDB(db2)
       /\ run' = [run EXCEPT ![t] = IdleRun]
       /\ obs' = [obs EXCEPT ![t] = NoObs]
       /\ returned' = SuccessResult(t, records, n_campaigns, Final(o))
       /\ last_success' = [exists |-> TRUE, data |-> records, at |-> now]
  ELSE IF sf.kill
  THEN /\ SetDB(db2)
       /\ ProcessDies
       /\ UNCHANGED last_success
  ELSE handle_exception(t, db2, "sqlite3.Error", records, o)

\* ------------------------------------------------------------ the run
\* offset += limit (line 154).
next_offset(offset) ==
  IF offset + limit > MaxOffset THEN MaxOffset ELSE offset + limit

\* One more request, response or page in a run's history.
Counted(n) == IF n >= MaxCount THEN MaxCount ELSE n + 1

\* The records the recency window admits from a page, stated on the
\* timestamps themselves: a zoned ISO timestamp at or after the cutoff.
InWindow(v, cutoff) ==
  v.k = "str" /\ v.form \in {"Z", "offset"} /\ v.t >= cutoff

RECURSIVE InWindowRecords(_, _, _)
InWindowRecords(emails, campaign, cutoff) ==
  IF emails = <<>> THEN <<>>
  ELSE (IF InWindow(Head(emails).sent_time, cutoff)
        THEN <<BounceRecord(Head(emails), campaign)>> ELSE <<>>)
       \o InWindowRecords(Tail(emails), campaign, cutoff)

\* Lines 55-74: the run starts.  With the placeholder key it raises
\* ValueError before any request; otherwise it computes the cutoff and
\* suspends in `await client.get(.../campaigns)`.
fetch_bounced_emails(t, cap) ==
  /\ run[t].pc = "idle"
  /\ runs < cap
  /\ runs' = runs + 1
  /\ UNCHANGED <<env_api_key, now, response, logs, provider>>
  /\ LET o == [NoObs EXCEPT !.started_at = now] IN
     IF getenv(env_api_key) = PLACEHOLDER
     THEN handle_exception(t, DB, "ValueError", <<>>, o)
     ELSE /\ run' = [run EXCEPT ![t] =
                       [IdleRun EXCEPT !.pc = "campaigns",
                                       !.seven_days_ago = now - WindowDays]]
          /\ obs' = [obs EXCEPT ![t] = [o EXCEPT !.calls = 1]]
          /\ UNCHANGED <<returned, bounced_emails, fetch_log, bounced_seq, last_success>>

\* Lines 74-105: the campaign list arrives.  A failed call or a body that
\* is no campaign list raises into the outer except; an empty list falls
\* through both loops to the store phase; otherwise the first page of the
\* first campaign is requested.
campaigns_response(t, resp) ==
  /\ run[t].pc = "campaigns"
  /\ UNCHANGED <<env_api_key, now, response, logs, provider, runs>>
  /\ LET o == [obs[t] EXCEPT !.responses = Counted(@)] IN
     IF resp.http = "error"
     THEN handle_exception(t, DB, "HTTPStatusError", <<>>, o)
     ELSE IF resp.shape # "list"
     THEN handle_exception(t, DB, "TypeError", <<>>, o)
     ELSE IF resp.items = <<>>
     THEN store_and_return(t, <<>>, 0,
                           [o EXCEPT !.last = [NoPage EXCEPT !.outcome = "no_campaigns"]])
     ELSE /\ run' = [run EXCEPT ![t] =
                       [@ EXCEPT !.pc = "page", !.campaigns = resp.items,
                                 !.ci = 1, !.offset = 0]]
          /\ obs' = [obs EXCEPT ![t] =
                       [o EXCEPT !.calls = Counted(@), !.fetches = 1, !.fulls = 0,
                                 !.expected = <<>>]]
          /\ UNCHANGED <<returned, bounced_emails, fetch_log, bounced_seq, last_success>>

\* Mutant: the except clause of the page loop goes on to the next offset
\* instead of breaking.
except_continue(outcome, recs, emails) ==
  [outcome |-> outcome, stop |-> FALSE, recs |-> recs, emails |-> emails]

\* Lines 156-158: the except clause of the page loop logs and breaks; what
\* was appended before stays in all_bounced_emails.
except_break(outcome, recs, emails) ==
  [outcome |-> outcome, stop |-> TRUE, recs |-> recs, emails |-> emails]

\* Lines 151-154: break on a page shorter than limit, else offset += limit.
last_page(emails) == Len(emails) < limit

\* Mutant: only a bare list is taken for a page; the object with 'data'
\* goes the way of an unexpected body.
page_step_list_only(r, resp) ==
  LET campaign == r.campaigns[r.ci]
      f == filter_page(resp.items, campaign, r.seven_days_ago)
  IN IF resp.http = "error"
     THEN except_break("fetch_failed", <<>>, r.emails)
     ELSE IF resp.shape # "list"
     THEN [outcome |-> "bad_shape", stop |-> TRUE, recs |-> <<>>, emails |-> r.emails]
     ELSE IF Len(resp.items) = 0
     THEN [outcome |-> "empty", stop |-> TRUE, recs |-> <<>>, emails |-> resp.items]
     ELSE IF f.raised
     THEN except_break("raised", f.recs, resp.items)
     ELSE IF last_page(resp.items)
     THEN [outcome |-> "short", stop |-> TRUE, recs |-> f.recs, emails |-> resp.items]
     ELSE [outcome |-> "full", stop |-> FALSE, recs |-> f.recs, emails |-> resp.items]

\* Lines 104-158 for one response: what the loop body does with it.
\*   outcome: fetch_failed (line 156), bad_shape (114), empty (118),
\*            raised (an entry's exception caught at 156), short (151), full
\*   stop:    the while loop breaks;  recs: the records appended
page_step(r, resp) ==
  LET campaign == r.campaigns[r.ci]
      f == filter_page(resp.items, campaign, r.seven_days_ago)
  IN IF resp.http = "error"
     THEN except_break("fetch_failed", <<>>, r.emails)
     ELSE IF resp.shape \notin {"list", "data"}
     THEN [outcome |-> "bad_shape", stop |-> TRUE, recs |-> <<>>, emails |-> r.emails]
     ELSE IF Len(resp.items) = 0
     THEN [outcome |-> "empty", stop |-> TRUE, recs |-> <<>>, emails |-> resp.items]
     ELSE IF f.raised
     THEN except_break("raised", f.recs, resp.items)
     ELSE IF last_page(resp.items)
     THEN [outcome |-> "short", stop |-> TRUE, recs |-> f.recs, emails |-> resp.items]
     ELSE [outcome |-> "full", stop |-> FALSE, recs |-> f.recs, emails |-> resp.items]

\* Lines 95-160 and on: a page response arrives.  The loop either requests
\* the next page (offset += limit), or breaks and goes to the next campaign
\* (offset = 0), or, after the last campaign, runs the store phase.
page_response(t, resp) ==
  /\ run[t].pc = "page"
  /\ UNCHANGED <<env_api_key, now, response, logs, provider, runs>>
  /\ LET r == run[t]
         p == page_step(r, resp)
         all == r.all_bounced_emails \o p.recs
         listed == p.outcome \in {"empty", "raised", "short", "full"}
         wanted == IF listed
                   THEN InWindowRecords(resp.items, r.campaigns[r.ci],
                                        obs[t].started_at - WindowDays)
                   ELSE <<>>
         fulls == IF listed /\ Len(resp.items) >= limit
                  THEN Counted(obs[t].fulls) ELSE obs[t].fulls
         o == [obs[t] EXCEPT
                 !.responses = Counted(@),
                 !.fulls = fulls,
                 !.expected = @ \o wanted,
                 !.fetch_failed = @ \/ p.outcome = "fetch_failed",
                 !.last = [outcome |-> p.outcome,
                           page |-> IF listed THEN resp.items ELSE <<>>,
                           stopped |-> p.stop,
                           fetches |-> obs[t].fetches, fulls |-> fulls]]
     IN IF ~p.stop
        THEN /\ run' = [run EXCEPT ![t] =
                          [@ EXCEPT !.offset = next_offset(@), !.emails = p.emails,
                                    !.all_bounced_emails = all]]
             /\ obs' = [obs EXCEPT ![t] =
                          [o EXCEPT !.calls = Counted(@), !.fetches = Counted(@)]]
             /\ UNCHANGED <<returned, bounced_emails, fetch_log, bounced_seq, last_success>>
        ELSE IF r.ci < Len(r.campaigns)
        THEN /\ run' = [run EXCEPT ![t] =
                          [@ EXCEPT !.ci = @ + 1, !.offset = 0, !.emails = p.emails,
                                    !.all_bounced_emails = all]]
             /\ obs' = [obs EXCEPT ![t] =
                          [o EXCEPT !.calls = Counted(@), !.fetches = 1, !.fulls = 0,
                                    !.expected = <<>>]]
             /\ UNCHANGED <<returned, bounced_emails, fetch_log, bounced_seq, last_success>>
        ELSE store_and_return(t, all, Len(r.campaigns), o)

\* ------------------------------------------------- callers and endpoints
\* The inputs of the whole-service specification: one campaign at most and
\* pages of fresh entries, so that overlapping runs stay enumerable.
NarrowLists == {l \in CampaignLists : \A i \in DOMAIN l : l[i].id = 1}

\* Lines 219-227: the CronTrigger fires the daily job.  The scheduler runs
\* one instance of a job at a time (APScheduler's max_instances default), so
\* the job is one task; nothing relates it to /refresh.
scheduled_job == fetch_bounced_emails(CronTask, MaxRuns)

\* Lines 289-297: GET or POST /refresh awaits fetch_bounced_emails directly.
manual_refresh ==
  \E i \in 1..MaxManual : fetch_bounced_emails(<<"refresh", i>>, MaxRuns)

CampaignsArrive ==
  \E t \in Tasks, resp \in CampaignsResponses(NarrowLists) :
    campaigns_response(t, resp)

PageArrives ==
  \E t \in Tasks :
    \E resp \in PageResponses(NarrowSentTimes(run[t].seven_days_ago),
                              run[t].offset, 0) :
      page_response(t, resp)

\* Lines 258-287: GET /bounced-emails reads the committed rows.
get_bounced_emails ==
  /\ \E r \in read_responses(bounced_emails) : response' = r
  /\ UNCHANGED <<env_api_key, now, run, obs, returned, bounced_emails, fetch_log,
                 bounced_seq, runs, last_success, logs, provider>>

\* Lines 210-239: the process is shut down (scheduler.shutdown, or killed)
\* and started again, possibly with another environment.  init_db creates
\* the tables only if they do not exist, so the stored rows stay.
lifespan ==
  /\ \E e \in Envs : env_api_key' = e
  /\ ProcessDies
  /\ response' = NoResponse
  /\ logs' = NoLogs
  /\ UNCHANGED <<now, bounced_emails, fetch_log, bounced_seq, runs, last_success,
                 provider>>

Tick ==
  /\ now < MaxClock
  /\ now' = now + 1
  /\ UNCHANGED <<env_api_key, run, obs, returned, bounced_emails, fetch_log,
                 bounced_seq, runs, last_success, response, logs, provider>>

\* After init_db on a new database file (lines 21-41) and startup.
Startup ==
  /\ now = 0
  /\ run = [t \in Tasks |-> IdleRun]
  /\ obs = [t \in Tasks |-> NoObs]
  /\ returned = NoResult
  /\ bounced_emails = <<>>
  /\ fetch_log = <<>>
  /\ bounced_seq = 0
  /\ runs = 0
  /\ last_success = [exists |-> FALSE, data |-> <<>>, at |-> 0]
  /\ response = NoResponse
  /\ logs = NoLogs

Init ==
  /\ Startup
  /\ env_api_key \in Envs
  /\ provider = NoProvider

Next ==
  \/ scheduled_job
  \/ manual_refresh
  \/ CampaignsArrive
  \/ PageArrives
  \/ get_bounced_emails
  \/ lifespan
  \/ Tick

Spec == Init /\ [][Next]_vars

\* ---------------------------------------------- one run, the provider wide
\* The first /refresh after startup, against a provider that may return
\* any campaign list and any page: every kind of sent_time, full pages,
\* both response shapes.
RefreshTask == <<"refresh", 1>>

FirstRefresh == fetch_bounced_emails(RefreshTask, 1)

CampaignsArriveWide ==
  \E resp \in CampaignsResponses(CampaignLists) :
    campaigns_response(RefreshTask, resp)

PageArrivesWide ==
  \E resp \in PageResponses(WideSentTimes(run[RefreshTask].seven_days_ago),
                            run[RefreshTask].offset, MaxFullPages) :
    page_response(RefreshTask, resp)

NextIngest ==
  \/ FirstRefresh
  \/ CampaignsArriveWide
  \/ PageArrivesWide
  \/ Tick

SpecIngest == Init /\ [][NextIngest]_vars

\* ------------------------------------------ one run, the provider endless
\* The first /refresh against a provider that answers every request, and
\* may answer every offset with a full page (a campaign with no end, or a
\* provider that ignores the offset parameter).  Its entries are stale or
\* carry no sent_time, so the aggregate does not grow.  Every remote call
\* returns or fails within the client's timeout (line 68), which is the
\* fairness of the two arrivals.
StaleSentTimes(c) == {JsonNull, IsoZ(c - 1)}

CampaignsArriveEndless ==
  \E resp \in CampaignsResponses(CampaignLists) :
    campaigns_response(RefreshTask, resp)

PageArrivesEndless ==
  \E resp \in PageResponses(StaleSentTimes(run[RefreshTask].seven_days_ago),
                            run[RefreshTask].offset, MaxFullPages + 2) :
    page_response(RefreshTask, resp)

NextEndless ==
  \/ FirstRefresh
  \/ CampaignsArriveEndless
  \/ PageArrivesEndless
  \/ Tick

SpecEndless ==
  /\ Init
  /\ [][NextEndless]_vars
  /\ WF_vars(CampaignsArriveEndless)
  /\ WF_vars(PageArrivesEndless)

\* ------------------------------------------- two runs, the provider fixed
\* /refresh twice, one run after the other, against a provider whose data
\* does not change: a campaign list and, per campaign, its list of bounce
\* entries, of which a request at `offset` gets the next `limit`.  The
\* entries are sent at the cutoff of a run started at clock 0 or at the
\* cutoff of a run started at clock 1.
ReplaySentTimes == {IsoZ(0 - WindowDays), IsoZ(1 - WindowDays)}

BounceLists == SeqsUpTo({Entry(v) : v \in ReplaySentTimes}, limit + 1)

Providers ==
  {[campaigns |-> l, bounces |-> b] :
     l \in CampaignLists, b \in [1..MaxCampaigns -> BounceLists]}

\* The slice of a campaign's bounce list served at `offset`.
page_at(bounces, offset) ==
  SubSeq(bounces, offset + 1,
         IF offset + limit < Len(bounces) THEN offset + limit ELSE Len(bounces))

InitReplay ==
  /\ Startup
  /\ env_api_key = "sk_live"
  /\ provider \in {q \in Providers :
                     \A i \in 1..MaxCampaigns :
                       (\A k \in DOMAIN q.campaigns : q.campaigns[k].id # i)
                       => q.bounces[i] = <<>>}

RefreshAgain == fetch_bounced_emails(RefreshTask, 2)

CampaignsArriveReplay ==
  campaigns_response(RefreshTask,
                     [http |-> "ok", shape |-> "list", items |-> provider.campaigns])

PageArrivesReplay ==
  /\ run[RefreshTask].pc = "page"
  /\ \E sh \in {"list", "data"} :
       LET r == run[RefreshTask]
           items == page_at(provider.bounces[r.campaigns[r.ci].id], r.offset)
       IN page_response(RefreshTask, [http |-> "ok", shape |-> sh, items |-> items])

NextReplay ==
  \/ RefreshAgain
  \/ CampaignsArriveReplay
  \/ PageArrivesReplay
  \/ Tick

SpecReplay == InitReplay /\ [][NextReplay]_vars

\* ------------------------------------------------- /refresh and /logs
\* Values of the limit query parameter (`limit: int = 10`, line 300: any
\* integer is accepted).
LogLimits == -1..MaxRuns

\* Lines 299-327: GET /logs reads the committed rows of fetch_log.
get_logs ==
  /\ \E lim \in LogLimits :
       \E ids \in select_logs(fetch_log, lim) :
         logs' = logs_response(fetch_log, ids, lim)
  /\ UNCHANGED <<env_api_key, now, run, obs, returned, bounced_emails, fetch_log,
                 bounced_seq, runs, last_success, response, provider>>

\* The service with /refresh requests and reads of the log.
NextLogs ==
  \/ manual_refresh
  \/ CampaignsArrive
  \/ PageArrives
  \/ get_logs
  \/ Tick

SpecLogs == Init /\ [][NextLogs]_vars

\* ================================================================ claims
\* Task t left fetch_bounced_emails in this step and its caller was answered
\* (a result object, or the exception that escaped).
Left(t) ==
  /\ run[t].pc # "idle"
  /\ run'[t].pc = "idle"
  /\ returned'.status # "none"
  /\ returned'.task = t

\* The history and the aggregate of task t's run after this step.
After(t) == IF run'[t].pc = "idle" THEN returned'.obs ELSE obs'[t]

AggregateAfter(t) ==
  IF run'[t].pc = "idle" THEN returned'.aggregate
  ELSE run'[t].all_bounced_emails

\* Task t's run took a page response in this step.
PageStep(t) ==
  /\ run[t].pc = "page"
  /\ run'[t].pc = "page" \/ Left(t)
  /\ After(t).responses = obs[t].responses + 1

\* The provider answered with a page (a list, bare or under 'data').
Listed(p) == p.outcome \in {"empty", "raised", "short", "full"}

CurrentCampaign(t) == run[t].campaigns[run[t].ci]

\* The last page outcome of every run there is to see.
LastPages == {obs[t].last : t \in Tasks} \cup {returned.obs.last}

\* C1: at most one ingestion run is active at any time: a trigger that
\* arrives while a run is suspended at a remote call starts no second run.
C1_AtMostOneActiveRun ==
  Cardinality({t \in Tasks : run[t].pc # "idle"}) <= 1

\* C2: N full pages followed by a short or empty page make exactly N+1
\* page fetches: after every full page the loop fetches the next one, and
\* at the short or empty page it stops, having fetched once more than the
\* number of full pages.
C2_FullPagesPlusOneFetches ==
  \A p \in LastPages :
    Listed(p) =>
      IF Len(p.page) >= limit THEN ~p.stopped
      ELSE p.stopped /\ p.fetches = p.fulls + 1

\* The records of one campaign in an aggregate, in order.
OfCampaign(records, campaign) ==
  SelectSeq(records, LAMBDA r : r.campaign_id = campaign.id)

\* Task t's page fetch failed in this step (non-success status or transport
\* failure), after obs[t].fulls full pages of the same campaign.
FetchFailedStep(t) == PageStep(t) /\ After(t).last.outcome = "fetch_failed"

\* What a failed page fetch does to the run: the aggregate is as it was, so
\* the campaigns before keep their records and this campaign keeps exactly
\* the in-window records of its full pages; its pagination stops, and the
\* next campaign starts at offset 0 from the same locals as after any other
\* end of a campaign, or, after the last campaign, the run leaves the loop.
FetchFailureIsLocal(t) ==
  /\ AggregateAfter(t) = run[t].all_bounced_emails
  /\ OfCampaign(AggregateAfter(t), CurrentCampaign(t)) = obs[t].expected
  /\ Left(t) \/ run'[t] = [run[t] EXCEPT !.ci = @ + 1, !.offset = 0]

\* C3 as stated: a failed page fetch is local to its campaign, and the run
\* still ends with status=success.
C3_FetchFailureKeepsSuccess ==
  [][\A t \in Tasks :
       /\ FetchFailedStep(t) => FetchFailureIsLocal(t)
       /\ (Left(t) /\ returned'.obs.fetch_failed)
            => returned'.status = "success"]_vars

\* C3, amended: a failed page fetch is local to its campaign and does not
\* fail the run: the run reaches the store phase and ends with
\* status=success exactly when the snapshot is committed; it ends otherwise
\* only because a statement of the store phase failed.
C3_FetchFailureIsNotFatal ==
  [][\A t \in Tasks :
       /\ FetchFailedStep(t) => FetchFailureIsLocal(t)
       /\ (Left(t) /\ returned'.obs.fetch_failed)
            => /\ returned'.status = "success" <=> bounced_seq' = bounced_seq + 1
               /\ returned'.status # "success"
                    => /\ returned'.message.text = "sqlite3.Error"
                       /\ bounced_emails' = bounced_emails]_vars

\* A run returned success although the fetch of its last campaign failed
\* after one full page, and it stored records of two campaigns.
C3_Witness ==
  /\ returned.status = "success"
  /\ returned.obs.last.outcome = "fetch_failed"
  /\ returned.obs.last.fulls >= 1
  /\ returned.total_campaigns >= 2
  /\ \E i, j \in DOMAIN returned.aggregate :
       returned.aggregate[i].campaign_id # returned.aggregate[j].campaign_id

\* A sent_time the filter cannot evaluate: present, but no zoned ISO
\* timestamp (a number, text that does not parse, a timestamp with no zone).
Unevaluable(v) == Truthy(v) /\ ~(v.k = "str" /\ v.form \in {"Z", "offset"})

\* The page with every unevaluable entry replaced by a stale one.
AsStale(page, cutoff) ==
  [i \in DOMAIN page |->
     IF Unevaluable(page[i].sent_time) THEN Entry(IsoZ(cutoff - 1)) ELSE page[i]]

\* C4: an entry whose sent_time cannot be evaluated is skipped alone: the
\* page gives the records, and pagination goes on or stops, exactly as if
\* that entry had been a stale one.
C4_BadEntrySkippedAlone ==
  [][\A t \in Tasks :
       (/\ PageStep(t)
        /\ Listed(After(t).last)
        /\ \E i \in DOMAIN After(t).last.page :
             Unevaluable(After(t).last.page[i].sent_time))
       => LET stale == AsStale(After(t).last.page, run[t].seven_days_ago)
              q == page_step(run[t], [http |-> "ok", shape |-> "list", items |-> stale])
          IN /\ AggregateAfter(t) = run[t].all_bounced_emails \o q.recs
             /\ After(t).last.stopped = q.stop]_vars

\* C5: an entry of a fetched page becomes a record iff its sent_time is
\* present, is a timestamp (with Z or with an offset) and is at or after the
\* cutoff, the run's start minus 7 days: each page adds exactly its
\* in-window entries, in order.
C5_RecordIffInWindow ==
  [][\A t \in Tasks :
       (PageStep(t) /\ Listed(After(t).last))
       => AggregateAfter(t) =
            run[t].all_bounced_emails
            \o InWindowRecords(After(t).last.page, CurrentCampaign(t),
                               obs[t].started_at - WindowDays)]_vars

\* C6: no exception leaves fetch_bounced_emails: whatever fails during a
\* run, the caller gets a result object with status success or error.
C6_NoExceptionEscapes == returned.status # "raised"

\* C7: with the credential unset or the placeholder, the run makes no
\* remote call, returns status=error, appends exactly one error outcome and
\* leaves the snapshot, and so what the read endpoint returns, unchanged.
C7_MissingCredentialIsAnError ==
  [][(/\ runs' = runs + 1
      /\ getenv(env_api_key) = PLACEHOLDER
      /\ returned'.status # "none")
     => /\ returned'.status = "error"
        /\ returned'.obs.calls = 0
        /\ Len(fetch_log') = Len(fetch_log) + 1
        /\ SubSeq(fetch_log', 1, Len(fetch_log)) = fetch_log
        /\ fetch_log'[Len(fetch_log')].status = "error"
        /\ bounced_emails' = bounced_emails
        /\ read_responses(bounced_emails') = read_responses(bounced_emails)]_vars

\* What the read endpoint owes its client: the aggregate of the latest run
\* that returned success, or the no-data result.
LastGoodResponse ==
  IF last_success.exists
  THEN [status |-> "success", data |-> last_success.data,
        fetched_at |-> last_success.at,
        total_bounced |-> Len(last_success.data)]
  ELSE no_data_response

\* C8: after any sequence of runs the read endpoint returns the snapshot of
\* the most recently committed successful run, or no-data if none ever
\* succeeded; a failed run does not change what it returns.
C8_ReadServesLastSuccess ==
  read_responses(bounced_emails) = {LastGoodResponse}

\* Two runs stored a snapshot and a later run failed.
C8_Witness ==
  /\ last_success.exists
  /\ bounced_seq >= 2
  /\ returned.status \in {"error", "raised"}

\* C9: the snapshot table never holds more than one row, whatever the
\* number of runs and however they overlap.
C9_AtMostOneSnapshot == Len(bounced_emails) <= 1

\* A second snapshot has replaced the first while another run is in flight.
C9_Witness ==
  /\ Len(bounced_emails) = 1
  /\ bounced_seq >= 2
  /\ \E t \in Tasks : run[t].pc # "idle"

\* C10: once a snapshot is committed, no step (of a run in progress, of a
\* run whose store phase fails or is interrupted at any statement) makes
\* the read endpoint return anything but the complete previous snapshot or
\* the complete aggregate of the run that has just returned success.
C10_ReplaceIsAllOrNothing ==
  [][\A before \in read_responses(bounced_emails) :
       before.status = "success"
       => \A after \in read_responses(bounced_emails') :
            \/ after = before
            \/ /\ after.status = "success"
               /\ \E t \in Tasks :
                    /\ Left(t)
                    /\ returned'.status = "success"
                    /\ after.data = returned'.aggregate]_vars

\* A run's store phase failed while a committed snapshot was there.
C10_Witness ==
  /\ returned.status = "error"
  /\ returned.message.text = "sqlite3.Error"
  /\ Len(bounced_emails) = 1

\* C11: every started run eventually returns a result, whatever the provider
\* answers, as long as every remote call returns or fails: no sequence of
\* responses keeps a run, or the pagination of one campaign, going forever.
C11_EveryRunReturns ==
  \A t \in Tasks : (run[t].pc # "idle") ~> (run[t].pc = "idle")

\* The log after this step is the log before it, followed by n new entries.
Appended(n) ==
  /\ Len(fetch_log') = Len(fetch_log) + n
  /\ SubSeq(fetch_log', 1, Len(fetch_log)) = fetch_log

RECURSIVE WholeAggregate(_, _)
\* The in-window entries of the provider's data: campaign after campaign in
\* the order of the list, each campaign's entries in the order of its list.
WholeAggregate(campaigns, cutoff) ==
  IF campaigns = <<>> THEN <<>>
  ELSE InWindowRecords(provider.bounces[Head(campaigns).id], Head(campaigns), cutoff)
       \o WholeAggregate(Tail(campaigns), cutoff)

\* The records of a successful run are the in-window entries of the data,
\* by campaign in the enumerator's order, then by page, then by entry.
OrderPreserved(t) ==
  returned'.aggregate =
    WholeAggregate(provider.campaigns, obs[t].started_at - WindowDays)

\* C13 as stated: the aggregate keeps the order campaign, page, entry, and
\* two runs over identical provider responses give identical sequences.
C13_SameResponsesSameRecords ==
  [][\A t \in Tasks :
       (Left(t) /\ returned'.status = "success")
       => /\ OrderPreserved(t)
          /\ last_success.exists => returned'.aggregate = last_success.data]_vars

\* C13, amended: the aggregate keeps the order campaign, page, entry, and
\* is determined by the provider's responses and the run's cutoff: two runs
\* over identical responses give identical sequences if they have the same
\* cutoff (an entry between two cutoffs is in one aggregate only).
C13_OrderIsDeterministic ==
  [][\A t \in Tasks :
       (Left(t) /\ returned'.status = "success") => OrderPreserved(t)]_vars

\* The second run stored records of two campaigns, one of them with more
\* than a page of records.
C13_Witness ==
  /\ returned.status = "success"
  /\ bounced_seq = 2
  /\ \E c, d \in Range(provider.campaigns) :
       /\ c # d
       /\ Len(OfCampaign(returned.aggregate, c)) > limit
       /\ Len(OfCampaign(returned.aggregate, d)) >= 1

\* C14: on every successful run total_campaigns is the number of campaigns
\* the enumerator returned (those whose pagination was aborted included),
\* total_bounced_emails is the number of records of the snapshot the run
\* stored, and the success outcome it appended cites the same two totals.
C14_TotalsMatchSnapshot ==
  [][\A t \in Tasks :
       (Left(t) /\ returned'.status = "success")
       => LET stored == json_loads(bounced_emails'[Len(bounced_emails')].data)
              outcome == fetch_log'[Len(fetch_log')]
          IN /\ returned'.total_campaigns = Len(run[t].campaigns)
             /\ stored = returned'.aggregate
             /\ returned'.total_bounced_emails = Len(stored)
             /\ outcome.status = "success"
             /\ outcome.message.campaigns = returned'.total_campaigns
             /\ outcome.message.emails = returned'.total_bounced_emails]_vars

\* A run over two campaigns, the page fetch of the last one failed: one
\* campaign has 2 records, the other 1, and the totals are 2 and 3.
C14_Witness ==
  /\ returned.status = "success"
  /\ returned.total_campaigns = 2
  /\ returned.total_bounced_emails = 3
  /\ returned.obs.last.outcome = "fetch_failed"
  /\ Len(OfCampaign(returned.aggregate, Campaign(1))) = 2
  /\ Len(OfCampaign(returned.aggregate, Campaign(2))) = 1
  /\ fetch_log[Len(fetch_log)].message = Message("Successfully fetched", 3, 2)

\* Task t's run got an empty campaign list and left in this step.
EmptyListStep(t) == Left(t) /\ returned'.obs.last.outcome = "no_campaigns"

\* The read endpoint's answer on an empty snapshot stored now.
EmptySnapshotResponse ==
  [status |-> "success", data |-> <<>>, fetched_at |-> now, total_bounced |-> 0]

\* The run returns success with both totals 0 and the read endpoint
\* returns the empty snapshot from now on.
ClearsSnapshot ==
  /\ returned'.status = "success"
  /\ returned'.total_campaigns = 0
  /\ returned'.total_bounced_emails = 0
  /\ read_responses(bounced_emails') = {EmptySnapshotResponse}

\* C15 as stated: on an empty campaign list the run fetches no page,
\* returns success with totals 0 and 0, and replaces the snapshot with the
\* empty sequence.
C15_EmptyListClearsSnapshot ==
  [][\A t \in Tasks :
       EmptyListStep(t) => returned'.obs.fetches = 0 /\ ClearsSnapshot]_vars

\* C15, amended: on an empty campaign list the run fetches no page and
\* goes to the store phase; if the store commits, it returns success with
\* totals 0 and 0 and the empty snapshot replaces the stored one; if a
\* statement of the store phase fails, it does not return success and the
\* stored snapshot stays.
C15_EmptyListClearsIfStored ==
  [][\A t \in Tasks :
       EmptyListStep(t)
       => /\ returned'.obs.fetches = 0
          /\ IF bounced_seq' = bounced_seq + 1 THEN ClearsSnapshot
             ELSE /\ returned'.status # "success"
                  /\ returned'.message.text = "sqlite3.Error"
                  /\ bounced_emails' = bounced_emails]_vars

\* A read returned a non-empty snapshot; then a run got an empty campaign
\* list and returned success, and the store holds the empty snapshot.
C15_Witness ==
  /\ returned.status = "success"
  /\ returned.obs.last.outcome = "no_campaigns"
  /\ response.status = "success"
  /\ response.data # <<>>
  /\ \A r \in read_responses(bounced_emails) : r.data = <<>>

\* What a read returns of the snapshot: the records and their count.
Content(rows) ==
  {[data |-> r.data, total_bounced |-> r.total_bounced] : r \in read_responses(rows)}

\* C16: replacing the snapshot is idempotent: when a successful run stores
\* the record sequence S that the successful run before it stored, the read
\* endpoint returns S once, not duplicated or concatenated: the same
\* content as after the first of the two runs alone.
C16_ReplaceIsIdempotent ==
  [][\A t \in Tasks :
       (/\ Left(t)
        /\ returned'.status = "success"
        /\ last_success.exists
        /\ last_success.data = returned'.aggregate)
       => /\ Content(bounced_emails') = Content(bounced_emails)
          /\ Content(bounced_emails') =
               {[data |-> returned'.aggregate,
                 total_bounced |-> Len(returned'.aggregate)]}]_vars

\* A read returned the non-empty snapshot S of the first run; a second run
\* has stored S again, later.
C16_Witness ==
  /\ bounced_seq = 2
  /\ returned.status = "success"
  /\ returned.aggregate # <<>>
  /\ last_success.data = returned.aggregate
  /\ response.status = "success"
  /\ response.data = returned.aggregate
  /\ response.fetched_at < last_success.at

\* C17: for every log content and every limit, /logs returns at most
\* `limit` outcomes (read for a limit that is a count, 0 or more), and they
\* are the most recently appended ones, newest first: the last row of the
\* log, then the one before it, and so on.
C17_LogsNewestFirst ==
  [][(logs' # logs /\ logs'.asked)
     => /\ logs'.limit >= 0 => Len(logs'.logs) <= logs'.limit
        /\ \A i \in DOMAIN logs'.ids :
             logs'.ids[i] = Len(fetch_log) + 1 - i]_vars

\* Task t's run got, in this step, a page response that is neither a list
\* nor an object with 'data'.
BadShapeStep(t) == PageStep(t) /\ After(t).last.outcome = "bad_shape"

\* What such a response does to the run: the aggregate is as it was, so
\* the earlier pages keep their records; the campaign's pagination stops;
\* the next campaign starts at offset 0 as after any other end of a
\* campaign, or, after the last campaign, the run leaves the loop.
BadShapeIsLocal(t) ==
  /\ AggregateAfter(t) = run[t].all_bounced_emails
  /\ OfCampaign(AggregateAfter(t), CurrentCampaign(t)) = obs[t].expected
  /\ After(t).last.stopped
  /\ Left(t) \/ run'[t] = [run[t] EXCEPT !.ci = @ + 1, !.offset = 0]

\* A page gives the same records, and the same decision to go on, whether
\* it comes as a bare list or under 'data'.
ShapesAgree(t) ==
  LET page == After(t).last.page
      bare == page_step(run[t], [http |-> "ok", shape |-> "list", items |-> page])
      wrapped == page_step(run[t], [http |-> "ok", shape |-> "data", items |-> page])
  IN /\ bare = wrapped
     /\ AggregateAfter(t) = run[t].all_bounced_emails \o bare.recs

\* C18 as stated: an unrecognized page body stops the pagination of its
\* campaign only and the run ends with status=success; a bare list and the
\* same list under 'data' yield identical records.
C18_BadShapeKeepsSuccess ==
  [][\A t \in Tasks :
       /\ BadShapeStep(t)
            => BadShapeIsLocal(t) /\ (Left(t) => returned'.status = "success")
       /\ (PageStep(t) /\ Listed(After(t).last)) => ShapesAgree(t)]_vars

\* C18, amended: an unrecognized page body stops the pagination of its
\* campaign only and does not fail the run: the run goes on to the store
\* phase and ends with status=success exactly when the snapshot is
\* committed; a bare list and the same list under 'data' yield identical
\* records.
C18_BadShapeIsNotFatal ==
  [][\A t \in Tasks :
       /\ BadShapeStep(t)
            => /\ BadShapeIsLocal(t)
               /\ Left(t)
                    => /\ returned'.status = "success" <=> bounced_seq' = bounced_seq + 1
                       /\ returned'.status # "success"
                            => /\ returned'.message.text = "sqlite3.Error"
                               /\ bounced_emails' = bounced_emails
       /\ (PageStep(t) /\ Listed(After(t).last)) => ShapesAgree(t)]_vars

\* A run returned success although the last page response of its last
\* campaign, after a full page, was unrecognized; it stored records of two
\* campaigns.
C18_Witness ==
  /\ returned.status = "success"
  /\ returned.obs.last.outcome = "bad_shape"
  /\ returned.obs.last.fulls >= 1
  /\ returned.total_campaigns >= 2
  /\ \E i, j \in DOMAIN returned.aggregate :
       returned.aggregate[i].campaign_id # returned.aggregate[j].campaign_id

\* C19: within a campaign the page requests are sequential at offsets 0,
\* limit, 2*limit, ...: the first request of a campaign is at offset 0,
\* each further one at the previous offset plus limit, so no offset is
\* requested twice and a failed page is not retried; and a further page is
\* requested iff the page just received has at least limit entries,
\* whatever the number of its entries that passed the filter.
C19_OffsetsSequential ==
  [][\A t \in Tasks :
       /\ (run[t].pc \in {"idle", "campaigns"} /\ run'[t].pc = "page")
            => run'[t].offset = 0
       /\ PageStep(t)
            => /\ After(t).last.stopped
                    => \/ Left(t)
                       \/ run'[t].ci = run[t].ci + 1 /\ run'[t].offset = 0
               /\ ~After(t).last.stopped
                    => run'[t].ci = run[t].ci /\ run'[t].offset = run[t].offset + limit
               /\ ~After(t).last.stopped
                    <=> Listed(After(t).last) /\ Len(After(t).last.page) >= limit]_vars

\* The success entries of a log, oldest first.
Successes(log) == SelectSeq(log, LAMBDA e : e.status = "success")

\* The newest success entry of the log is the one written with the stored
\* snapshot: written at the same instant, citing its record count.
SnapshotHasItsOutcome(rows, log) ==
  rows # <<>>
  => /\ Successes(log) # <<>>
     /\ LET newest == Successes(log)[Len(Successes(log))]
            snapshot == rows[Len(rows)]
        IN /\ newest.fetched_at = snapshot.created_at
           /\ newest.message.emails = Len(json_loads(snapshot.data))

\* C20: the snapshot and the success outcome are committed together: a
\* step replaces the snapshot iff it appends a success entry, and in
\* every committed state with a snapshot the newest success entry is the
\* one of the run that stored it, also when runs overlap or a store phase
\* fails or is interrupted.
C20_SnapshotAndOutcomeTogether ==
  [][/\ bounced_emails' # bounced_emails
          <=> Len(Successes(fetch_log')) = Len(Successes(fetch_log)) + 1
     /\ Len(Successes(fetch_log')) >= Len(Successes(fetch_log))
     /\ SnapshotHasItsOutcome(bounced_emails', fetch_log')]_vars

\* Two runs stored a snapshot, the second while a third run, started
\* before, was in flight.
C20_Witness ==
  /\ Len(bounced_emails) = 1
  /\ bounced_seq >= 2
  /\ Len(Successes(fetch_log)) >= 2
  /\ \E t \in Tasks :
       run[t].pc # "idle" /\ obs[t].started_at < bounced_emails[1].created_at

====
